---- MODULE Spec2Model ----
(***************************************************************************)
(* lsat-proxy: the token lifecycle engine of the paywall reverse proxy.    *)
(*                                                                         *)
(* The model follows src/src/api.rs (handle_protected), src/src/lsat.rs    *)
(* (mint, verify, header parsing), src/src/db.rs (the quota ledger),       *)
(* src/src/lnd.rs (node gateway and invoice cache), src/src/config.rs      *)
(* (charge arithmetic) and src/src/upstream.rs (forwarding).               *)
(*                                                                         *)
(* Requests are tasks of a multi-threaded scheduler: every access to the   *)
(* shared store, the cache, the node or the clock is one step of a task,   *)
(* and the steps of different tasks interleave freely.                     *)
(***************************************************************************)
EXTENDS Integers, Sequences, FiniteSets, TLC

\* ------------------------------------------------------------------ bounds

\* Requests started in one behaviour when they are served concurrently.
MaxRequests == 3
\* Request tasks in flight at the same time.
MaxTasks == 2
\* Requests started in one behaviour when they are served one after the other.
MaxSeqRequests == 2
\* Invoices the node hands out in one behaviour (one per mint).
MaxInvoices == 1
\* Requests started and invoices handed out in one behaviour when only
\* requests without a credential arrive.
MaxMintRequests == 3
MaxMints == 2
\* Requests started in one behaviour when they are served concurrently and
\* every one of them succeeds.
MaxRaceRequests == 4
MaxReplayRequests == 5
MaxEntries == 3
ArrayLen == 2
MaxPairRequests == 4
MaxLndCalls == 3

\* ------------------------------------------------- 32-bit unsigned integers
\* MiliSats wraps a u32 (lsat.rs:29).  A u32 is kept as <<hi, lo>>, two
\* 16-bit limbs, so that no intermediate value exceeds a signed 32-bit integer.

LimbBase == 65536

U32(hi, lo) == <<hi, lo>>
U32Zero == U32(0, 0)
IsU32(x) == /\ x \in Seq(Nat) /\ Len(x) = 2
            /\ x[1] < LimbBase /\ x[2] < LimbBase

\* a < b on u32 values.
U32Lt(a, b) == \/ a[1] < b[1]
               \/ a[1] = b[1] /\ a[2] < b[2]

\* The product of two 16-bit limbs as <<hi, lo>>.
LimbMul(a, b) ==
    LET x == a * (b % 256)
        y == a * (b \div 256)
        t == x + (y % 256) * 256
    IN  <<(t \div LimbBase) + (y \div 256), t % LimbBase>>

\* a * b modulo 2^32 (u32 wrapping multiplication).
U32WrappingMul(a, b) ==
    LET ll == LimbMul(a[2], b[2])
        lh == LimbMul(a[2], b[1])
        hl == LimbMul(a[1], b[2])
    IN  U32((ll[1] + lh[2] + hl[2]) % LimbBase, ll[2])

\* Whether the mathematical product a * b does not fit a u32.
U32MulOverflows(a, b) ==
    LET ll == LimbMul(a[2], b[2])
        lh == LimbMul(a[2], b[1])
        hl == LimbMul(a[1], b[2])
        hh == LimbMul(a[1], b[1])
    IN  \/ hh # <<0, 0>>
        \/ lh[1] # 0
        \/ hl[1] # 0
        \/ ll[1] + lh[2] + hl[2] >= LimbBase

\* a - b modulo 2^32 (u32 wrapping subtraction).
U32WrappingSub(a, b) ==
    LET borrow == IF a[2] < b[2] THEN 1 ELSE 0
    IN  U32((a[1] - b[1] - borrow + LimbBase) % LimbBase,
            (a[2] - b[2] + LimbBase) % LimbBase)

\* ------------------------------------------------------- hashing, encodings
\* SHA-256, the HMAC key derivation, hex and the fixed binary encoding are
\* injective constructors: equal outputs mean equal inputs, and a decoder
\* accepts exactly what its encoder produces.

\* sha256::Hash::hash of a byte string.
Sha256(bytes) == <<"sha256", bytes>>

\* hex::encode / hex::decode.  Text that is not hex does not decode.
HexEncode(bytes) == [enc |-> "hex", data |-> bytes]
HexDecodes(text) == text.enc = "hex"
HexDecode(text) == text.data

\* MacaroonKey::generate(seed): HMAC of the seed under the library's fixed,
\* public generator key.
MacaroonKeyGenerate(seed) == <<"hmac", "macaroons-key-generator", seed>>

\* ------------------------------------------------------ credential identity

ID_VERSION == 0

\* Id::new: the identity bound to a payment hash, token_id drawn by the RNG.
IdNew(payment_hash, token_id) ==
    [version |-> ID_VERSION, payment_hash |-> payment_hash, token_id |-> token_id]

\* bincode::serialize(&id): the three fields, fixed width, in declaration order.
Serialize(id) == <<id.version, id.payment_hash, id.token_id>>

\* bincode::deserialize: three fields or an error.
Deserializes(bytes) == Len(bytes) = 3
Deserialize(bytes) ==
    [version |-> bytes[1], payment_hash |-> bytes[2], token_id |-> bytes[3]]

\* Id::to_sha256.
IdToSha256(id) == Sha256(Serialize(id))

\* From<Id> for ByteString: the macaroon identifier of an identity.
IdToIdentifier(id) == HexEncode(Serialize(id))

\* TryFrom<&Macaroon> for Id: hex-decode, deserialize, version check.
IdDecodes(mac) ==
    /\ HexDecodes(mac.identifier)
    /\ Deserializes(HexDecode(mac.identifier))
    /\ Deserialize(HexDecode(mac.identifier)).version = ID_VERSION
IdTryFrom(mac) == Deserialize(HexDecode(mac.identifier))

\* The store key of an identity (db.rs: "lsat/proxy/secrets/<hex digest>").
DbId(id) == <<"lsat/proxy/secrets/", HexEncode(IdToSha256(id))>>

\* ---------------------------------------------------------------- macaroons
\* A first-party caveat is the predicate text key<op>value, kept parsed:
\* "time<120" is [key |-> "time", op |-> "<", val |-> 120].

Caveat(key, op, val) == [key |-> key, op |-> op, val |-> val]

\* The HMAC chain of a macaroon: it is reproduced only from the same root key,
\* identifier and caveats in the same order.
MacSignature(key, identifier, caveats) ==
    [root |-> key, identifier |-> identifier, caveats |-> caveats]

\* Macaroon::create followed by add_first_party_caveat for each caveat.
MacaroonCreate(key, identifier, caveats) ==
    [identifier |-> identifier,
     caveats    |-> caveats,
     signature  |-> MacSignature(key, identifier, caveats)]

\* Seconds a minted credential stays redeemable (lsat.rs:234).
PaymentWindow == 120

\* The three caveats generate_challange attaches, in order.
MintCaveats(curr_ts, path, body_sha) ==
    << Caveat("time", "<", curr_ts + PaymentWindow),
       Caveat("path", "=", path),
       Caveat("payload", "=", HexEncode(body_sha)) >>

\* timestamp_verifier: "false" for a caveat that is not time<..., a panic when
\* the text after '<' is no number (parse().unwrap()), else curr_ts < ts.
TimestampVerifier(caveat, curr_ts) ==
    IF ~(caveat.key = "time" /\ caveat.op = "<") THEN "false"
    ELSE IF caveat.val \notin Nat THEN "panic"
    ELSE IF curr_ts < caveat.val THEN "true" ELSE "false"

\* A Verifier whose path satisfier accepts the path of any backend.
CaveatSatisfiedAnyPath(caveat, path, curr_ts) ==
    IF caveat.key = "path" /\ caveat.op = "=" THEN "true"
    ELSE TimestampVerifier(caveat, curr_ts)

\* One caveat under the Verifier of Lsat::verify: the exact satisfier
\* path=<path> first, then the general satisfier timestamp_verifier.  The
\* payload satisfier is commented out in the source (lsat.rs:273-274).
CaveatSatisfied(caveat, path, curr_ts) ==
    IF caveat = Caveat("path", "=", path) THEN "true"
    ELSE TimestampVerifier(caveat, curr_ts)

RECURSIVE VerifyCaveats(_, _, _, _)
\* Verifier::verify walks the caveats in order and stops at the first that no
\* satisfier accepts (or at a panic of a satisfier).
VerifyCaveats(caveats, i, path, curr_ts) ==
    IF i > Len(caveats) THEN "ok"
    ELSE LET c == CaveatSatisfied(caveats[i], path, curr_ts)
         IN  IF c = "panic" THEN "panic"
             ELSE IF c = "false" THEN "err"
             ELSE VerifyCaveats(caveats, i + 1, path, curr_ts)

\* Verifier::verify(mac, key): every caveat satisfied, then the signature
\* chain recomputed under key equals the macaroon's.
VerifierVerify(mac, key, path, curr_ts) ==
    LET c == VerifyCaveats(mac.caveats, 1, path, curr_ts)
    IN  IF c # "ok" THEN c
        ELSE IF mac.signature = MacSignature(key, mac.identifier, mac.caveats)
        THEN "ok" ELSE "err"

\* Lsat::verify(secret, path, body_sha): "ok", "err" or "panic".  body_sha is
\* computed by the caller and not used.
LsatVerify(id, mac, secret, path, curr_ts) ==
    IF secret # MacaroonKeyGenerate(IdToSha256(id)) THEN "err"
    ELSE VerifierVerify(mac, secret, path, curr_ts)

\* ----------------------------------------------------------- request binder
\* A body is a map from strings to strings; a string is its sequence of
\* character codes.

RECURSIVE StrLt(_, _)
\* Lexicographic order of strings (the order of sorted_by_key).
StrLt(a, b) ==
    IF Len(b) = 0 THEN FALSE
    ELSE IF Len(a) = 0 THEN TRUE
    ELSE IF a[1] # b[1] THEN a[1] < b[1]
    ELSE StrLt(Tail(a), Tail(b))

RECURSIVE CanonicalBody(_, _)
\* Keys ascending, each followed by its value, joined with no separator.
CanonicalBody(indata, keys) ==
    IF keys = {} THEN << >>
    ELSE LET k == CHOOSE x \in keys : \A y \in keys \ {x} : StrLt(x, y)
         IN  k \o indata[k] \o CanonicalBody(indata, keys \ {k})

\* ToSha256 for HashMap<String, String>.
BodyToSha256(indata) == Sha256(CanonicalBody(indata, DOMAIN indata))

\* The same function on the entries of the map in the order self.iter() yields
\* them, an entry being [k |-> key, v |-> value]: sorted_by_key, flat_map to
\* key and value, join with no separator, hash.

RECURSIVE InsertByKey(_, _)
\* One step of the stable sort: e goes before the first entry of a greater key.
InsertByKey(e, sorted) ==
    IF sorted = << >> THEN << e >>
    ELSE IF StrLt(e.k, sorted[1].k) THEN << e >> \o sorted
    ELSE << sorted[1] >> \o InsertByKey(e, Tail(sorted))

\* An ordering that leaves the entries as they come.
SortedByKeyUnsorted(entries) == entries

RECURSIVE SortedByKey(_)
\* Itertools::sorted_by_key(|(k, _)| *k): the entries by ascending key, equal
\* keys in their order of arrival.
SortedByKey(entries) ==
    IF entries = << >> THEN << >>
    ELSE InsertByKey(entries[Len(entries)],
                     SortedByKey(SubSeq(entries, 1, Len(entries) - 1)))

RECURSIVE JoinEntries(_)
\* flat_map(|(x, y)| [x, y]) ... join(""): keys and values in a row.
JoinEntries(entries) ==
    IF entries = << >> THEN << >>
    ELSE entries[1].k \o entries[1].v \o JoinEntries(Tail(entries))

\* to_sha256 of a map that iterates as `entries`.
EntriesToSha256(entries) == Sha256(JoinEntries(SortedByKey(entries)))

\* The map whose entries are `entries`.
MapOf(entries) ==
    [k \in {entries[i].k : i \in 1..Len(entries)} |->
        (CHOOSE e \in {entries[i] : i \in 1..Len(entries)} : e.k = k).v]

\* Keys and values of the bodies examined: "a", "ab", "b" and "1", "2".
BodyKeys == { <<97>>, <<97, 98>>, <<98>> }
BodyValues == { <<49>>, <<50>> }

\* The iteration orders of the maps of at most MaxEntries entries: sequences
\* of entries with no key twice (a HashMap holds a key once).
Iterations ==
    UNION { {e \in [1..n -> [k : BodyKeys, v : BodyValues]] :
                \A i, j \in 1..n : i # j => e[i].k # e[j].k}
            : n \in 0..MaxEntries }

\* The other orders in which the same entries can come.
Reorderings(entries) ==
    LET n == Len(entries)
    IN  { [i \in 1..n |-> entries[f[i]]] :
            f \in {g \in [1..n -> 1..n] : \A i, j \in 1..n : i # j => g[i] # g[j]} }

\* ------------------------------------------------------------ configuration

None == [some |-> FALSE, val |-> U32Zero]
Some(v) == [some |-> TRUE, val |-> v]
UnwrapOr(opt, dflt) == IF opt.some THEN opt.val ELSE dflt

\* Backend::get_price.
GetPrice(backend) == backend.price_msat

\* Backend::amount_total: price_msat * budget_multiple.unwrap_or(1) in u32.
\* The multiplication panics on overflow in a debug build and wraps in a
\* release build.
AmountTotalOverflows(backend) ==
    U32MulOverflows(backend.price_msat, UnwrapOr(backend.budget_multiple, U32(0, 1)))

\* A charge that leaves the budget multiple out.
AmountTotalPriceOnly(backend) == backend.price_msat

\* Backend::amount_total: the product modulo 2^32.
AmountTotal(backend) ==
    U32WrappingMul(backend.price_msat, UnwrapOr(backend.budget_multiple, U32(0, 1)))

\* Strings used by the configurations and the request bodies.
StrQ == <<113>>
StrHi == <<104, 105>>

\* A backend of the configuration file (config.rs Backend): the fields the
\* token engine and the forwarder read.
Backend(path, price, budget, fields) ==
    [path |-> path, price_msat |-> price, budget_multiple |-> budget,
     pass_fields |-> fields]

\* The configurations checked, each a Vec<Backend> with distinct paths:
\* a price of 1000 msat with budget multiples 3 and absent, and the corner
\* cases budget multiple 0 and a product that does not fit 32 bits.
Configs ==
    { << Backend("/echo", U32(0, 1000), Some(U32(0, 3)), (StrQ :> "string")),
         Backend("/once", U32(0, 1000), None, << >>) >>,
      << Backend("/free", U32(0, 1000), Some(U32(0, 0)), << >>),
         Backend("/bulk", U32(1, 0), Some(U32(1, 0)), << >>) >> }

\* Request bodies a client sends.
Bodies == { << >>, (StrQ :> StrHi) }

\* Values the RNG draws for token_id.
TokenIds == {1}

\* Instants of the wall clock at which something happens, in seconds.
TimePoints == {0, 119, 120}

\* ----------------------------------------------------------------- state

VARIABLES
    build,       \* the build profile, "debug" (integer overflow panics) or
                 \* "release" (it wraps); "any" until an overflow shows which
    config,      \* the Vec<Backend> of the configuration file
    now,         \* the wall clock (SystemTime::now), seconds since the epoch
    db,          \* the sled store: key -> Entry
    invoices,    \* the node's invoices, in order of creation
    cache,       \* CACHE: payment hash -> invoice as last inserted
    stream,      \* invoice updates sent by the node, not yet received
    sub,         \* the subscription task: its position and whether the
                 \* stream it reads is still open
    challenges,  \* the 402 responses sent so far (what clients hold)
    task,        \* the request tasks: inputs, position and locals of each
    started,     \* requests started so far
    forwarded,   \* per challenge: requests that reached the forwarding step
    refused,     \* per challenge: whether a request presenting it ended before it
    probe,       \* a value handed to one of the pure functions (the request
                 \* binder, the identity codec) and what was computed from it
    lnd          \* Client.lnd, the mutex around the connection to the node:
                 \* who holds it and who waits for it, first come first

vars == <<build, config, now, db, invoices, cache, stream, sub, challenges,
          task, started, forwarded, refused, probe, lnd>>

Tasks == 1..MaxTasks

\* protected_path: the backend whose path is the request's path.
BackendFor(path) ==
    config[CHOOSE i \in 1..Len(config) : config[i].path = path]
Paths == {config[i].path : i \in 1..Len(config)}

\* An lnrpc::Invoice: the fields the proxy reads.
Invoice(n, state, value) ==
    [r_preimage |-> n, r_hash |-> Sha256(n), state |-> state, value_msat |-> value]

\* An entry that keeps the digest of the identity as its secret.
EntryDigestSecret(id, secret, quota) ==
    [id |-> DbId(id), secret |-> IdToSha256(id), quota |-> quota]

\* A db::Entry.
Entry(id, secret, quota) == [id |-> DbId(id), secret |-> secret, quota |-> quota]

\* The credential headers of a request.  shape is the Authorization header:
\* absent ("none"), not matching the regex "LSAT (.*?):([a-f0-9]{64})"
\* ("garbage"), or a macaroon and a preimage ("lsat").  other names the header
\* that carries a bare macaroon when there is one ("Grpc-Metadata-Macaroon" or
\* "Macaroon"); mac is the macaroon of whichever header carries one.
Header(shape, mac, preimage) ==
    [shape |-> shape, mac |-> mac, preimage |-> preimage, other |-> "none"]

\* A request whose only credential header is `name`, holding a bare macaroon.
MacaroonHeader(name, mac) ==
    [shape |-> "none", mac |-> mac, preimage |-> 0, other |-> name]

\* headers.contains_key("Authorization") (api.rs:76).
ContainsAuthorization(header) == header.shape # "none"

NoId == IdNew(Sha256(0), 0)
NoMac == MacaroonCreate(MacaroonKeyGenerate(IdToSha256(NoId)), IdToIdentifier(NoId), << >>)
NoHeader == Header("none", NoMac, 0)
GarbageHeader == Header("garbage", NoMac, 0)

\* A task slot with no request in it.
IdleTask ==
    [pc |-> "idle", path |-> "", auth |-> NoHeader, indata |-> << >>, cred |-> 0,
     id |-> NoId, preimage |-> 0,
     entry |-> Entry(NoId, MacaroonKeyGenerate(IdToSha256(NoId)), U32Zero),
     inv |-> Invoice(0, "Open", U32Zero), vtime |-> 0,
     status |-> 0, message |-> "", quota_header |-> U32Zero,
     db0 |-> << >>, invoices0 |-> 0]

Terminal == {"CHALLENGED", "REJECTED", "DONE", "PANICKED"}

\* A task that ends with a response (or, for "PANICKED", with the handler
\* unwinding and no response).
Finish(rec, pc, status, message) ==
    [rec EXCEPT !.pc = pc, !.status = status, !.message = message]

\* handle_rejection: a MyRejection is answered 400 with its message, any
\* other rejection 500 "UNHANDLED_REJECTION".
Reject400(rec, message) == Finish(rec, "REJECTED", 400, message)
Reject500(rec) == Finish(rec, "REJECTED", 500, "UNHANDLED_REJECTION")
Panic(rec) == Finish(rec, "PANICKED", 0, "")

\* The node sends an invoice update on the subscription stream when one is
\* open; a subscription gets no update from before it was made.
Announce(inv) == IF sub.open THEN Append(stream, inv) ELSE stream

\* ------------------------------------------------------------------ clients
\* What a client can put in the Authorization header from a 402 response it
\* holds.  The root key of a credential is MacaroonKey::generate of the digest
\* of the identity, and the identity is the macaroon's public identifier, so
\* a client can compute the key and sign caveats of its choice.

\* The macaroon exactly as minted.
MintedMac(ch) == ch.mac

\* The same identity re-signed with the time and path caveats only.
ReboundMac(ch) ==
    MacaroonCreate(MacaroonKeyGenerate(Sha256(HexDecode(ch.mac.identifier))),
                   ch.mac.identifier, SubSeq(ch.mac.caveats, 1, 2))

\* The minted caveats cut to time and path with the minted signature kept.
TamperedMac(ch) == [ch.mac EXCEPT !.caveats = SubSeq(ch.mac.caveats, 1, 2)]

ClientMacs(ch) == {MintedMac(ch), ReboundMac(ch), TamperedMac(ch)}

\* The preimage the client presents: that of the invoice of the challenge
\* (POST /invoice/status answers it) or 32 zero bytes.
ClientPreimages(ch) == {ch.invoice, 0}

\* The same identity re-signed with the time and path caveats and a caveat
\* preimage=<hex of the preimage>, for the headers that carry no preimage.
PreimageMac(ch) ==
    MacaroonCreate(MacaroonKeyGenerate(Sha256(HexDecode(ch.mac.identifier))),
                   ch.mac.identifier,
                   SubSeq(ch.mac.caveats, 1, 2) \o
                       << Caveat("preimage", "=", ch.invoice) >>)

\* ---------------------------------------------------------------- parse_lsat

\* The text of a predicate before its first '=' (lsat.rs:184-185); a predicate
\* without '=' is taken whole, of which the key and the operator are the start.
PredicateHead(caveat) ==
    IF caveat.op = "=" THEN caveat.key ELSE caveat.key \o caveat.op

\* Lsat::get_predicate (lsat.rs:177-193): the first first-party caveat whose
\* text before '=' has length 2 and equals the name; expect() panics when
\* there is none.
GetPredicate(mac, name) ==
    LET hits == {i \in 1..Len(mac.caveats) :
                    /\ Len(PredicateHead(mac.caveats[i])) = 2
                    /\ PredicateHead(mac.caveats[i]) = name}
    IN  IF hits = {} THEN [res |-> "panic", val |-> 0]
        ELSE [res |-> "ok",
              val |-> mac.caveats[CHOOSE i \in hits : \A j \in hits : i <= j].val]

\* HeadersParser::parse_lsat (lsat.rs:301-346): the Authorization header when
\* there is one; else the macaroon of Grpc-Metadata-Macaroon or of Macaroon,
\* with the preimage taken from its preimage= caveat; else an error.
ParseLsat(header) ==
    IF ContainsAuthorization(header)
    THEN IF header.shape = "lsat" /\ IdDecodes(header.mac)
         THEN [res |-> "ok", preimage |-> header.preimage]
         ELSE [res |-> "err", preimage |-> 0]
    ELSE IF header.other \in {"Grpc-Metadata-Macaroon", "Macaroon"}
    THEN IF ~IdDecodes(header.mac) THEN [res |-> "err", preimage |-> 0]
         ELSE LET p == GetPredicate(header.mac, "preimage")
              IN  [res |-> p.res, preimage |-> p.val]
    ELSE [res |-> "err", preimage |-> 0]

\* --------------------------------------------------------- handle_protected

\* api.rs:68-89.  A request arrives.  Without an Authorization header the
\* handler turns to the mint; with one, parse_lsat takes the macaroon and the
\* preimage from it and decodes the identity.
Begin(t, path, header, indata, cred, limit, mints) ==
    /\ task[t].pc = "idle"
    /\ started < limit
    /\ ~ContainsAuthorization(header) =>
           Len(invoices) + Cardinality({u \in Tasks : task[u].pc = "mint"}) < mints
    /\ started' = started + 1
    /\ LET rec == [IdleTask EXCEPT !.path = path, !.auth = header,
                                   !.indata = indata, !.cred = cred, !.db0 = db,
                                   !.invoices0 = Len(invoices)]
           parsed == ParseLsat(header)
       IN  task' = [task EXCEPT ![t] =
               IF ~ContainsAuthorization(header) THEN [rec EXCEPT !.pc = "mint"]
               ELSE IF parsed.res = "ok"
               THEN [rec EXCEPT !.pc = "db_get", !.id = IdTryFrom(header.mac),
                                !.preimage = parsed.preimage]
               ELSE IF parsed.res = "panic" THEN Panic(rec)
               ELSE Reject400(rec, "LSAT incorrect")]
    /\ refused' = IF header.shape = "lsat" /\ ~IdDecodes(header.mac)
                  THEN [refused EXCEPT ![cred] = TRUE] ELSE refused
    /\ UNCHANGED <<lnd, probe, sub, build, config, now, db, invoices, cache, stream, challenges,
                   forwarded>>

\* A request with no Authorization header, or one that is not an LSAT.
BeginPlain(t, limit, mints) ==
    \E path \in Paths, header \in {NoHeader, GarbageHeader}, indata \in Bodies :
        Begin(t, path, header, indata, 0, limit, mints)

\* A request with no Authorization header that presents a credential made
\* from a received challenge in a Grpc-Metadata-Macaroon or Macaroon header.
BeginMacaroon(t, limit, mints) ==
    \E c \in 1..Len(challenges), path \in Paths, indata \in Bodies :
        \E name \in {"Grpc-Metadata-Macaroon", "Macaroon"} :
            Begin(t, path, MacaroonHeader(name, PreimageMac(challenges[c])),
                  indata, c, limit, mints)

\* A request presenting a credential made from a received challenge.
BeginLsat(t, limit) ==
    \E c \in 1..Len(challenges), path \in Paths, indata \in Bodies :
        \E mac \in ClientMacs(challenges[c]), pre \in ClientPreimages(challenges[c]) :
            Begin(t, path, Header("lsat", mac, pre), indata, c, limit, MaxInvoices)

\* A client that spends a credential: the identity re-signed, on the path it
\* was minted for, with the preimage of its invoice.
BeginReplay(t, limit) ==
    \E c \in 1..Len(challenges), indata \in Bodies :
        Begin(t, challenges[c].path,
              Header("lsat", ReboundMac(challenges[c]), challenges[c].invoice),
              indata, c, limit, MaxInvoices)

\* lsat.rs:196-220.  Lsat::new_challenge: the charge, the node's add_invoice,
\* then Id::new around the payment hash of the invoice.
MintAddInvoice(t) ==
    LET rec == task[t]
        backend == BackendFor(rec.path)
        n == Len(invoices) + 1
    IN  /\ rec.pc = "mint"
        /\ \/ \* the product overflows in a debug build: the handler panics
              /\ AmountTotalOverflows(backend) /\ build \in {"any", "debug"}
              /\ build' = "debug"
              /\ task' = [task EXCEPT ![t] = Panic(rec)]
              /\ UNCHANGED <<invoices, stream>>
           \/ \* no overflow, or a release build: the node is asked
              /\ AmountTotalOverflows(backend) => build \in {"any", "release"}
              /\ build' = IF AmountTotalOverflows(backend) THEN "release" ELSE build
              /\ \/ \* add_invoice fails
                    /\ task' = [task EXCEPT ![t] =
                           Reject400(rec, "Unable to generate challange")]
                    /\ UNCHANGED <<invoices, stream>>
                 \/ \* the node creates the invoice and announces it
                    /\ invoices' = Append(invoices, Invoice(n, "Open", AmountTotal(backend)))
                    /\ stream' = Announce(Invoice(n, "Open", AmountTotal(backend)))
                    /\ \E token \in TokenIds :
                          task' = [task EXCEPT ![t] =
                              [rec EXCEPT !.pc = "mint_insert",
                                          !.id = IdNew(Sha256(n), token)]]
        /\ UNCHANGED <<lnd, probe, sub, config, now, db, cache, challenges, started,
                       forwarded, refused>>

\* lsat.rs:221-223, db.rs:50-68.  The secret of the identity and the ledger
\* entry with the charge as quota; a store error fails the request.
MintInsert(t) ==
    LET rec == task[t]
        backend == BackendFor(rec.path)
        secret == MacaroonKeyGenerate(IdToSha256(rec.id))
    IN  /\ rec.pc = "mint_insert"
        /\ \/ /\ db' = (DbId(rec.id) :> Entry(rec.id, secret, AmountTotal(backend))) @@ db
              /\ task' = [task EXCEPT ![t] = [rec EXCEPT !.pc = "mint_respond"]]
           \/ /\ task' = [task EXCEPT ![t] = Reject400(rec, "Unable to generate challange")]
              /\ UNCHANGED db
        /\ UNCHANGED <<lnd, probe, sub, build, config, now, invoices, cache, stream, challenges,
                       started, forwarded, refused>>

\* lsat.rs:225-250.  The macaroon with its three caveats and the 402 response
\* carrying it and the invoice in WWW-Authenticate.  Macaroon::create, the
\* reading of the clock against UNIX_EPOCH, the serialization of the macaroon
\* and the making of the header value can each return an error, which ends the
\* request with the entry of MintInsert still in the store.
MintRespond(t) ==
    LET rec == task[t]
        backend == BackendFor(rec.path)
        secret == MacaroonKeyGenerate(IdToSha256(rec.id))
        mac == MacaroonCreate(secret, IdToIdentifier(rec.id),
                              MintCaveats(now, backend.path, BodyToSha256(rec.indata)))
        n == CHOOSE i \in 1..Len(invoices) : invoices[i].r_hash = rec.id.payment_hash
    IN  /\ rec.pc = "mint_respond"
        /\ \/ /\ challenges' = Append(challenges,
                     [mac |-> mac, invoice |-> n, path |-> backend.path,
                      minted_at |-> now])
              /\ forwarded' = Append(forwarded, 0)
              /\ refused' = Append(refused, FALSE)
              /\ task' = [task EXCEPT ![t] = Finish(rec, "CHALLENGED", 402, "LSAT")]
           \/ /\ task' = [task EXCEPT ![t] =
                     Reject400(rec, "Unable to generate challange")]
              /\ UNCHANGED <<challenges, forwarded, refused>>
        /\ UNCHANGED <<lnd, probe, sub, build, config, now, db, invoices, cache, stream, started>>

\* One more authenticated request of challenge c ended before forwarding.
Refuse(c) == refused' = [refused EXCEPT ![c] = TRUE]

\* api.rs:91-94, db.rs:28-41.  Entry::get: the ledger entry of the identity,
\* or the request is rejected.
DbGet(t) ==
    LET rec == task[t]
    IN  /\ rec.pc = "db_get"
        /\ IF DbId(rec.id) \in DOMAIN db
           THEN /\ task' = [task EXCEPT ![t] =
                       [rec EXCEPT !.pc = "verify", !.entry = db[DbId(rec.id)]]]
                /\ UNCHANGED refused
           ELSE /\ task' = [task EXCEPT ![t] =
                       Reject400(rec, "No db entry for LSAT, possibly expired")]
                /\ Refuse(rec.cred)
        /\ UNCHANGED <<lnd, probe, sub, build, config, now, db, invoices, cache, stream, challenges,
                       started, forwarded>>

\* api.rs:96-102.  Lsat::verify against the secret of the entry, the path of
\* the backend and the clock.
Verify(t) ==
    LET rec == task[t]
        backend == BackendFor(rec.path)
        res == LsatVerify(rec.id, rec.auth.mac, rec.entry.secret, backend.path, now)
    IN  /\ rec.pc = "verify"
        /\ task' = [task EXCEPT ![t] =
               IF res = "ok" THEN [rec EXCEPT !.pc = "charge", !.vtime = now]
               ELSE IF res = "err" THEN Reject400([rec EXCEPT !.vtime = now], "LSAT incorrect")
               ELSE Panic([rec EXCEPT !.vtime = now])]
        /\ IF res = "ok" THEN UNCHANGED refused ELSE Refuse(rec.cred)
        /\ UNCHANGED <<lnd, probe, sub, build, config, now, db, invoices, cache, stream, challenges,
                       started, forwarded>>

\* MiliSats::sub_assign (lsat.rs:31-35): u32 subtraction, which panics on
\* underflow in a debug build and wraps in a release build.
SubAssignUnderflows(quota, rhs) == U32Lt(quota, rhs)

\* A subtraction that leaves the quota as it was.
SubAssignKeeps(quota, rhs) == quota

SubAssign(quota, rhs) == U32WrappingSub(quota, rhs)

\* Entry::remove (db.rs:70-73).
DbRemove(store, entry) == [k \in DOMAIN store \ {entry.id} |-> store[k]]

\* An update that writes the entry under every key of the store.
DbUpdateEvery(store, entry) == [k \in DOMAIN store \cup {entry.id} |-> entry]

\* Entry::update (db.rs:43-48): an insert under the entry's key.
DbUpdate(store, entry) == (entry.id :> entry) @@ store

\* The match on the decremented quota (api.rs:106-112): remove the entry at
\* zero, write it back otherwise.
StoreCharged(store, entry) ==
    IF entry.quota = U32Zero THEN DbRemove(store, entry) ELSE DbUpdate(store, entry)

\* The preimage check (api.rs:114-122).
PreimageMatches(id, preimage) == id.payment_hash = Sha256(preimage)

\* api.rs:104-122.  The quota of the local copy of the entry is decremented
\* by the price and the copy is removed from or written to the store; then
\* the digest of the preimage is compared with the payment hash.
Charge(t) ==
    LET rec == task[t]
        backend == BackendFor(rec.path)
        underflows == SubAssignUnderflows(rec.entry.quota, GetPrice(backend))
        entry == [rec.entry EXCEPT !.quota = SubAssign(@, GetPrice(backend))]
        charged == [rec EXCEPT !.entry = entry]
    IN  /\ rec.pc = "charge"
        /\ \/ \* the subtraction underflows in a debug build: the handler panics
              /\ underflows /\ build \in {"any", "debug"}
              /\ build' = "debug"
              /\ task' = [task EXCEPT ![t] = Panic(rec)]
              /\ Refuse(rec.cred)
              /\ UNCHANGED db
           \/ /\ underflows => build \in {"any", "release"}
              /\ build' = IF underflows THEN "release" ELSE build
              /\ \/ /\ db' = StoreCharged(db, entry)
                    /\ IF PreimageMatches(rec.id, rec.preimage)
                       THEN /\ task' = [task EXCEPT ![t] = [charged EXCEPT !.pc = "cache_get"]]
                            /\ UNCHANGED refused
                       ELSE /\ task' = [task EXCEPT ![t] =
                                   Reject400(charged, "Preimage does not match payment hash")]
                            /\ Refuse(rec.cred)
                 \/ \* the store fails: unwrap() of the result panics
                    /\ task' = [task EXCEPT ![t] = Panic(charged)]
                    /\ Refuse(rec.cred)
                    /\ UNCHANGED db
        /\ UNCHANGED <<lnd, probe, sub, config, now, invoices, cache, stream, challenges,
                       started, forwarded>>

\* A settled check that lets every invoice through.
IsSettledAlways(inv) == inv.state \in {"Open", "Settled", "Canceled", "Accepted"}

\* The settled check (api.rs:144-147) on the invoice lookup_invoice returned.
IsSettled(inv) == inv.state = "Settled"

\* What follows lookup_invoice: forwarding, or the rejection of the request.
AfterLookup(t, rec, inv) ==
    IF IsSettled(inv)
    THEN /\ task' = [task EXCEPT ![t] = [rec EXCEPT !.pc = "forward", !.inv = inv]]
         /\ forwarded' = [forwarded EXCEPT ![rec.cred] = @ + 1]
         /\ UNCHANGED refused
    ELSE /\ task' = [task EXCEPT ![t] =
                Reject400([rec EXCEPT !.inv = inv], "Invoice is not settled")]
         /\ Refuse(rec.cred)
         /\ UNCHANGED forwarded

\* lnd.rs:117-119.  lookup_invoice: the cache is asked for the digest of the
\* preimage; a hit is the answer.
CacheGet(t) ==
    LET rec == task[t]
        ph == Sha256(rec.preimage)
    IN  /\ rec.pc = "cache_get"
        /\ IF ph \in DOMAIN cache
           THEN AfterLookup(t, rec, cache[ph])
           ELSE /\ task' = [task EXCEPT ![t] = [rec EXCEPT !.pc = "node_lookup"]]
                /\ UNCHANGED <<forwarded, refused>>
        /\ UNCHANGED <<lnd, probe, sub, build, config, now, db, invoices, cache, stream, challenges,
                       started>>

\* lnd.rs:120-129.  On a miss the node is asked; an RPC error rejects the
\* request.
NodeLookup(t) ==
    LET rec == task[t]
        ph == Sha256(rec.preimage)
    IN  /\ rec.pc = "node_lookup"
        /\ \/ \E n \in 1..Len(invoices) :
                 /\ invoices[n].r_hash = ph
                 /\ task' = [task EXCEPT ![t] =
                        [rec EXCEPT !.pc = "cache_insert", !.inv = invoices[n]]]
                 /\ UNCHANGED refused
           \/ /\ task' = [task EXCEPT ![t] = Reject400(rec, "Unable to get invoice state")]
              /\ Refuse(rec.cred)
        /\ UNCHANGED <<lnd, probe, sub, build, config, now, db, invoices, cache, stream, challenges,
                       started, forwarded>>

\* lnd.rs:131-141.  The answer of the node is put in the cache and returned.
CacheInsert(t) ==
    LET rec == task[t]
    IN  /\ rec.pc = "cache_insert"
        /\ cache' = (rec.inv.r_hash :> rec.inv) @@ cache
        /\ AfterLookup(t, rec, rec.inv)
        /\ UNCHANGED <<lnd, probe, sub, build, config, now, db, invoices, stream, challenges, started>>

\* parse_indata (upstream.rs:118-134): every key of pass_fields is in the
\* body and its type is known.
ParseIndataOk(indata, pass_fields) ==
    \A k \in DOMAIN pass_fields :
        k \in DOMAIN indata /\ pass_fields[k] \in {"string", "int", "float"}

\* What the upstream answers: a body holding a string at response_fields, no
\* answer, a body that is not JSON, a value that is no string, or a body
\* without one of the path's segments.
UpstreamReplies == {"string", "unreachable", "not_json", "not_string", "missing"}

\* api.rs:150-176.  Upstream build, make and parse, then the 200 response
\* with x-msats-quota taken from the local copy of the entry.
Forward(t) ==
    LET rec == task[t]
        backend == BackendFor(rec.path)
    IN  /\ rec.pc = "forward"
        /\ IF ~ParseIndataOk(rec.indata, backend.pass_fields)
           THEN task' = [task EXCEPT ![t] = Reject500(rec)]
           ELSE \E reply \in UpstreamReplies :
                    task' = [task EXCEPT ![t] =
                        CASE reply = "string" ->
                                 [Finish(rec, "DONE", 200, "data")
                                      EXCEPT !.quota_header = rec.entry.quota]
                          [] reply = "missing" -> Panic(rec)
                          [] OTHER -> Reject500(rec)]
        /\ UNCHANGED <<lnd, probe, sub, build, config, now, db, invoices, cache, stream, challenges,
                       started, forwarded, refused>>

\* The response is on its way (or the connection is dropped after a panic):
\* the task ends.
Retire(t) ==
    /\ task[t].pc \in Terminal
    /\ task' = [task EXCEPT ![t] = IdleTask]
    /\ UNCHANGED <<lnd, probe, sub, build, config, now, db, invoices, cache, stream, challenges,
                   started, forwarded, refused>>

\* -------------------------------------------------------------- environment

\* The invoice is paid: the node settles it and sends the update.
NodeSettle(n) ==
    /\ n \in 1..Len(invoices)
    /\ invoices[n].state = "Open"
    /\ invoices' = [invoices EXCEPT ![n].state = "Settled"]
    /\ stream' = Announce(invoices'[n])
    /\ UNCHANGED <<lnd, probe, sub, build, config, now, db, cache, challenges, task, started,
                   forwarded, refused>>

\* lnd.rs:62-75.  The subscription task calls subscribe_invoices and gets a
\* stream.
SubscribeOk ==
    /\ sub.pc = "subscribe"
    /\ sub' = [pc |-> "message", open |-> TRUE]
    /\ UNCHANGED <<lnd, probe, build, config, now, db, invoices, cache, stream, challenges, task,
                   started, forwarded, refused>>

\* lnd.rs:62-74.  The subscribe call fails: the task sleeps a second and
\* starts the outer loop again.
SubscribeFails ==
    /\ sub.pc = "subscribe"
    /\ sub' = [pc |-> "outer_sleep", open |-> FALSE]
    /\ UNCHANGED <<lnd, probe, build, config, now, db, invoices, cache, stream, challenges, task,
                   started, forwarded, refused>>

OuterSleep ==
    /\ sub.pc = "outer_sleep"
    /\ sub' = [sub EXCEPT !.pc = "subscribe"]
    /\ UNCHANGED <<lnd, probe, build, config, now, db, invoices, cache, stream, challenges, task,
                   started, forwarded, refused>>

\* The connection to the node drops or the node closes the stream: what was
\* sent and not received is lost.
StreamBreaks ==
    /\ sub.open
    /\ sub' = [sub EXCEPT !.open = FALSE]
    /\ stream' = << >>
    /\ UNCHANGED <<lnd, probe, build, config, now, db, invoices, cache, challenges, task,
                   started, forwarded, refused>>

\* lnd.rs:78, 90-93.  message() on a stream that has ended answers None (or
\* the error that ended it): the `_` arm sleeps a second.
MessageEnded ==
    /\ sub.pc = "message" /\ ~sub.open
    /\ sub' = [sub EXCEPT !.pc = "inner_sleep"]
    /\ UNCHANGED <<lnd, probe, build, config, now, db, invoices, cache, stream, challenges, task,
                   started, forwarded, refused>>

\* lnd.rs:92-95.  After the sleep the inner loop goes round: message() is
\* called on the same stream again.
InnerSleep ==
    /\ sub.pc = "inner_sleep"
    /\ sub' = [sub EXCEPT !.pc = "message"]
    /\ UNCHANGED <<lnd, probe, build, config, now, db, invoices, cache, stream, challenges, task,
                   started, forwarded, refused>>

\* lnd.rs:77-89.  The subscription task receives the next update and puts it
\* in the cache.
StreamDeliver ==
    /\ sub.pc = "message" /\ sub.open
    /\ stream # << >>
    /\ cache' = (Head(stream).r_hash :> Head(stream)) @@ cache
    /\ stream' = Tail(stream)
    /\ UNCHANGED <<lnd, probe, sub, build, config, now, db, invoices, challenges, task, started,
                   forwarded, refused>>

\* An entry of the cache expires (10 minutes) or is evicted for capacity.
CacheEvict(h) ==
    /\ h \in DOMAIN cache
    /\ cache' = [k \in DOMAIN cache \ {h} |-> cache[k]]
    /\ UNCHANGED <<lnd, probe, sub, build, config, now, db, invoices, stream, challenges, task,
                   started, forwarded, refused>>

\* Time passes.
Tick ==
    /\ \E later \in TimePoints : later > now /\ now' = later
    /\ UNCHANGED <<lnd, probe, sub, build, config, db, invoices, cache, stream, challenges, task,
                   started, forwarded, refused>>

\* ------------------------------------------------------------ specifications

\* lnd.rs:50-52.  The mutex as Client::init makes it: nobody holds it.
LndFree == [holders |-> {}, waiters |-> << >>]

\* No pure function is under examination.
NoProbe == [op |-> "none", stage |-> "none"]

\* The server after start-up: configuration read, store, node and cache
\* empty, subscription task about to subscribe, no request received.
Boot ==
    /\ build = "any"
    /\ config \in Configs
    /\ now = 0
    /\ db = << >>
    /\ invoices = << >>
    /\ cache = << >>
    /\ stream = << >>
    /\ sub = [pc |-> "subscribe", open |-> FALSE]
    /\ challenges = << >>
    /\ task = [t \in Tasks |-> IdleTask]
    /\ started = 0
    /\ forwarded = << >>
    /\ refused = << >>
    /\ lnd = LndFree

Init == Boot /\ probe = NoProbe

\* The steps of a request task after its first.
Steps(t) ==
    \/ MintAddInvoice(t)
    \/ MintInsert(t)
    \/ MintRespond(t)
    \/ DbGet(t)
    \/ Verify(t)
    \/ Charge(t)
    \/ CacheGet(t)
    \/ NodeLookup(t)
    \/ CacheInsert(t)
    \/ Forward(t)
    \/ Retire(t)

\* Requests are served concurrently, by MaxTasks tasks, while invoices are
\* paid and entries of the cache expire.
Next ==
    \/ \E t \in Tasks : BeginPlain(t, MaxRequests, MaxInvoices)
    \/ \E t \in Tasks : BeginLsat(t, MaxRequests)
    \/ \E t \in Tasks : Steps(t)
    \/ \E n \in 1..MaxInvoices : NodeSettle(n)
    \/ \E h \in DOMAIN cache : CacheEvict(h)

Spec == Init /\ [][Next]_vars

\* Requests are served one after the other: a request starts when the one
\* before it has ended.
SeqRequests ==
    \/ BeginPlain(1, MaxSeqRequests, MaxInvoices)
    \/ BeginLsat(1, MaxSeqRequests)
    \/ Steps(1)

\* Sequential requests, with invoices being paid while they run and the
\* subscription not yet established.
NextSeq ==
    \/ SeqRequests
    \/ \E n \in 1..MaxInvoices : NodeSettle(n)

SpecSeq == Init /\ [][NextSeq]_vars

\* Sequential requests, with invoices being paid and time passing while they
\* run.
NextClock ==
    \/ SeqRequests
    \/ \E n \in 1..MaxInvoices : NodeSettle(n)
    \/ Tick

SpecClock == Init /\ [][NextClock]_vars

\* Sequential requests of clients that mint credentials and spend them, one
\* request after the other, with invoices being paid while they run.
NextReplay ==
    \/ BeginPlain(1, MaxReplayRequests, MaxInvoices)
    \/ BeginReplay(1, MaxReplayRequests)
    \/ Steps(1)
    \/ \E n \in 1..MaxInvoices : NodeSettle(n)

SpecReplay == Init /\ [][NextReplay]_vars

\* The steps of the subscription task.
SubTask ==
    \/ SubscribeOk
    \/ SubscribeFails
    \/ OuterSleep
    \/ StreamDeliver
    \/ MessageEnded
    \/ InnerSleep

\* Sequential requests next to the subscription task, with invoices being
\* paid and the stream breaking.  The scheduler runs the subscription task
\* whenever it can take a step.
NextStream ==
    \/ SeqRequests
    \/ \E n \in 1..MaxInvoices : NodeSettle(n)
    \/ SubTask
    \/ StreamBreaks

SpecStream == Init /\ [][NextStream]_vars /\ WF_vars(SubTask)

\* Sequential requests none of which carries a credential.
NextMint ==
    \/ BeginPlain(1, MaxMintRequests, MaxMints)
    \/ BeginMacaroon(1, MaxMintRequests, MaxMints)
    \/ MintAddInvoice(1)
    \/ MintInsert(1)
    \/ MintRespond(1)
    \/ Retire(1)

SpecMint == Init /\ [][NextMint]_vars

\* Concurrent requests in the behaviours where nothing goes wrong: no request
\* is rejected, no handler panics and no arithmetic overflows.
Calm ==
    /\ build' = "any"
    /\ \A t \in Tasks : task'[t].pc \notin {"REJECTED", "PANICKED"}

NextRace ==
    \/ \E t \in Tasks : BeginPlain(t, MaxRaceRequests, MaxInvoices) /\ Calm
    \/ \E t \in Tasks : BeginLsat(t, MaxRaceRequests) /\ Calm
    \/ \E t \in Tasks : Steps(t) /\ Calm
    \/ \E n \in 1..MaxInvoices : NodeSettle(n)

SpecRace == Init /\ [][NextRace]_vars

\* Two request tasks run at once for clients that spend their credentials,
\* with invoices being paid while they run.  The server has answered
\* two requests with a challenge each: the first on the first path of the
\* configuration, the second on the second path, or on the first when the
\* charge of the second does not fit 32 bits; both with an empty body.
PairTasks == {1, 2}

PairBackend(n) == IF ~AmountTotalOverflows(config[n]) THEN config[n] ELSE config[1]
PairId(n) == IdNew(Sha256(n), CHOOSE token \in TokenIds : TRUE)

TwoMinted ==
    /\ build = "any"
    /\ config \in Configs
    /\ now = 0
    /\ db = [k \in {DbId(PairId(n)) : n \in 1..2} |->
                LET n == CHOOSE m \in 1..2 : DbId(PairId(m)) = k
                IN  Entry(PairId(n), MacaroonKeyGenerate(IdToSha256(PairId(n))),
                          AmountTotal(PairBackend(n)))]
    /\ invoices = [n \in 1..2 |-> Invoice(n, "Open", AmountTotal(PairBackend(n)))]
    /\ cache = << >>
    /\ stream = << >>
    /\ sub = [pc |-> "subscribe", open |-> FALSE]
    /\ challenges = [n \in 1..2 |->
           [mac |-> MacaroonCreate(MacaroonKeyGenerate(IdToSha256(PairId(n))),
                                   IdToIdentifier(PairId(n)),
                                   MintCaveats(0, PairBackend(n).path,
                                               BodyToSha256(<< >>))),
            invoice |-> n, path |-> PairBackend(n).path, minted_at |-> 0]]
    /\ task = [t \in Tasks |-> IdleTask]
    /\ started = 2
    /\ forwarded = <<0, 0>>
    /\ refused = <<FALSE, FALSE>>
    /\ probe = NoProbe
    /\ lnd = LndFree

\* The steps of a request that presents a credential.
PairSteps(t) ==
    \/ DbGet(t)
    \/ Verify(t)
    \/ Charge(t)
    \/ CacheGet(t)
    \/ NodeLookup(t)
    \/ CacheInsert(t)
    \/ Forward(t)
    \/ Retire(t)

NextPair ==
    \/ \E t \in PairTasks : BeginReplay(t, MaxPairRequests)
    \/ \E t \in PairTasks : PairSteps(t)
    \/ \E n \in 1..Len(invoices) : NodeSettle(n)

SpecPair == TwoMinted /\ [][NextPair]_vars

\* ------------------------------------------------------ the connection mutex
\* Client (lnd.rs:24-26) keeps the connection in Arc<Mutex<..>>, a
\* tokio::sync::Mutex.  Its users are the request tasks and the subscription
\* task, named by records so that they can wait in one queue.
Requester(t) == [task |-> "request", n |-> t]
Subscriber == [task |-> "subscription", n |-> 0]

\* Mutex::lock().await: the caller gets the mutex when nobody holds it and
\* otherwise waits behind those who asked before.
Lock(m, who) ==
    IF m.holders = {}
    THEN [m EXCEPT !.holders = {who}]
    ELSE [m EXCEPT !.waiters = Append(@, who)]

\* A guard that is kept beyond the statement that took it.
UnlockKeeps(m, who) == m

\* The MutexGuard, a temporary of the statement that made the call, is
\* dropped at the end of that statement (or when `?` returns early): the
\* mutex passes to the waiter who asked first.
Unlock(m, who) ==
    IF m.waiters = << >>
    THEN [m EXCEPT !.holders = @ \ {who}]
    ELSE [holders |-> (m.holders \ {who}) \cup {Head(m.waiters)},
          waiters |-> Tail(m.waiters)]

\* lnd.rs:101-108.  A request calls add_invoice, which asks for the mutex.
CallAddInvoice(t) ==
    /\ task[t].pc = "idle"
    /\ started < MaxLndCalls
    /\ started' = started + 1
    /\ \E path \in Paths :
          /\ ~AmountTotalOverflows(BackendFor(path))
          /\ task' = [task EXCEPT ![t] =
                 [IdleTask EXCEPT !.pc = "add_invoice_lock", !.path = path]]
    /\ lnd' = Lock(lnd, Requester(t))
    /\ UNCHANGED <<probe, sub, build, config, now, db, invoices, cache, stream,
                   challenges, forwarded, refused>>

\* lnd.rs:105-113.  With the mutex held the call is made; the node creates
\* the invoice and announces it, or the call fails.  The statement ends and
\* the guard is dropped either way.
AddInvoiceReturns(t) ==
    LET rec == task[t]
        n == Len(invoices) + 1
        inv == Invoice(n, "Open", AmountTotal(BackendFor(rec.path)))
    IN  /\ rec.pc = "add_invoice_lock"
        /\ Requester(t) \in lnd.holders
        /\ \/ UNCHANGED <<invoices, stream>>
           \/ /\ Len(invoices) < MaxInvoices
              /\ invoices' = Append(invoices, inv)
              /\ stream' = Announce(inv)
        /\ lnd' = Unlock(lnd, Requester(t))
        /\ task' = [task EXCEPT ![t] = IdleTask]
        /\ UNCHANGED <<probe, sub, build, config, now, db, cache, challenges,
                       started, forwarded, refused>>

\* lnd.rs:117-125.  A request calls lookup_invoice: an invoice found in the
\* cache is returned at once, and otherwise the mutex is asked for.
CallLookupInvoice(t) ==
    /\ task[t].pc = "idle"
    /\ started < MaxLndCalls
    /\ started' = started + 1
    /\ \E n \in 1..MaxInvoices :
          IF Sha256(n) \in DOMAIN cache
          THEN UNCHANGED <<task, lnd>>
          ELSE /\ task' = [task EXCEPT ![t] =
                      [IdleTask EXCEPT !.pc = "lookup_invoice_lock",
                                       !.preimage = n]]
               /\ lnd' = Lock(lnd, Requester(t))
    /\ UNCHANGED <<probe, sub, build, config, now, db, invoices, cache, stream,
                   challenges, forwarded, refused>>

\* lnd.rs:122-141.  With the mutex held the call is made; the guard is
\* dropped at the end of the statement, and an invoice the node knows is
\* put in the cache.
LookupInvoiceReturns(t) ==
    LET rec == task[t]
        ph == Sha256(rec.preimage)
    IN  /\ rec.pc = "lookup_invoice_lock"
        /\ Requester(t) \in lnd.holders
        /\ \/ \E n \in 1..Len(invoices) :
                 /\ invoices[n].r_hash = ph
                 /\ cache' = (ph :> invoices[n]) @@ cache
           \/ UNCHANGED cache
        /\ lnd' = Unlock(lnd, Requester(t))
        /\ task' = [task EXCEPT ![t] = IdleTask]
        /\ UNCHANGED <<probe, sub, build, config, now, db, invoices, stream,
                       challenges, started, forwarded, refused>>

\* lnd.rs:62-65.  The subscription task asks for the mutex.
SubscribeLock ==
    /\ sub.pc = "subscribe"
    /\ sub' = [sub EXCEPT !.pc = "subscribe_lock"]
    /\ lnd' = Lock(lnd, Subscriber)
    /\ UNCHANGED <<probe, build, config, now, db, invoices, cache, stream,
                   challenges, task, started, forwarded, refused>>

\* lnd.rs:66-75.  With the mutex held subscribe_invoices is called; it
\* answers with a stream or with an error, and the guard is dropped at the
\* `;` of line 68, before the stream is read and before the sleep.
SubscribeReturns ==
    /\ sub.pc = "subscribe_lock"
    /\ Subscriber \in lnd.holders
    /\ \/ sub' = [pc |-> "message", open |-> TRUE]
       \/ sub' = [pc |-> "outer_sleep", open |-> FALSE]
    /\ lnd' = Unlock(lnd, Subscriber)
    /\ UNCHANGED <<probe, build, config, now, db, invoices, cache, stream,
                   challenges, task, started, forwarded, refused>>

\* The steps a request task takes inside the Client once it has called.
LndRequest(t) ==
    \/ AddInvoiceReturns(t)
    \/ LookupInvoiceReturns(t)

\* The steps of the subscription task, those on the mutex apart.
LndSubscription ==
    \/ SubscribeLock
    \/ SubscribeReturns
    \/ OuterSleep
    \/ StreamDeliver
    \/ MessageEnded
    \/ InnerSleep

\* The Client shared by the request tasks and the subscription task.  The
\* runtime runs every task that can take a step, and a call the node has
\* received is answered.
NextLnd ==
    \/ \E t \in Tasks : CallAddInvoice(t)
    \/ \E t \in Tasks : CallLookupInvoice(t)
    \/ \E t \in Tasks : LndRequest(t)
    \/ LndSubscription
    \/ StreamBreaks

SpecLnd ==
    /\ Init
    /\ [][NextLnd]_vars
    /\ WF_vars(LndSubscription)
    /\ \A t \in Tasks : WF_vars(LndRequest(t))

\* Everything but the probe.
Others == <<build, config, now, db, invoices, cache, stream, sub, challenges,
            task, started, forwarded, refused, lnd>>

\* ------------------------------------------------- the identity, byte by byte
\* The identity codec on bytes (0..255) and hex text (a sequence of one-letter
\* strings).  The arrays payment_hash and token_id, 32 bytes each in the
\* source, are examined at ArrayLen bytes each.

\* usize on the 64-bit targets, as bincode writes it.
UsizeBytes == 8

RECURSIVE LeBytes(_, _)
\* A fixed-width little-endian integer.
LeBytes(n, width) ==
    IF width = 0 THEN << >> ELSE << n % 256 >> \o LeBytes(n \div 256, width - 1)

\* The integer of a little-endian byte string whose bytes above the third are
\* zero; -1 stands for the larger ones.
LeValue(bytes) ==
    IF \E i \in 4..Len(bytes) : bytes[i] # 0 THEN -1
    ELSE bytes[1] + 256 * bytes[2] + 65536 * bytes[3]

\* A serialization that writes token_id before payment_hash.
BincodeSerializeTokenFirst(id) ==
    LeBytes(id.version, UsizeBytes) \o id.token_id \o id.payment_hash

\* bincode::serialize(&id) (lsat.rs:104, 111): version as a fixed u64, then
\* the two arrays, with no length prefix.
BincodeSerialize(id) ==
    LeBytes(id.version, UsizeBytes) \o id.payment_hash \o id.token_id

\* bincode::deserialize::<Id> (lsat.rs:121): fails on input shorter than the
\* three fields.
BincodeDeserializes(bytes) == Len(bytes) >= UsizeBytes + 2 * ArrayLen
BincodeDeserialize(bytes) ==
    [version |-> LeValue(SubSeq(bytes, 1, UsizeBytes)),
     payment_hash |-> SubSeq(bytes, UsizeBytes + 1, UsizeBytes + ArrayLen),
     token_id |-> SubSeq(bytes, UsizeBytes + ArrayLen + 1, UsizeBytes + 2 * ArrayLen)]

LowerHex == << "0", "1", "2", "3", "4", "5", "6", "7",
               "8", "9", "a", "b", "c", "d", "e", "f" >>
UpperHex == << "0", "1", "2", "3", "4", "5", "6", "7",
               "8", "9", "A", "B", "C", "D", "E", "F" >>

RECURSIVE HexEncodeBytes(_)
\* hex::encode: two lower-case digits a byte, high nibble first.
HexEncodeBytes(bytes) ==
    IF bytes = << >> THEN << >>
    ELSE << LowerHex[(bytes[1] \div 16) + 1], LowerHex[(bytes[1] % 16) + 1] >>
             \o HexEncodeBytes(Tail(bytes))

IsHexDigit(c) == \E n \in 1..16 : LowerHex[n] = c \/ UpperHex[n] = c
HexDigitValue(c) == (CHOOSE n \in 1..16 : LowerHex[n] = c \/ UpperHex[n] = c) - 1

\* hex::decode: an even number of hex digits, of either case.
HexDecodesBytes(text) ==
    /\ Len(text) % 2 = 0
    /\ \A i \in 1..Len(text) : IsHexDigit(text[i])

RECURSIVE HexDecodeBytes(_)
HexDecodeBytes(text) ==
    IF text = << >> THEN << >>
    ELSE << 16 * HexDigitValue(text[1]) + HexDigitValue(text[2]) >>
             \o HexDecodeBytes(SubSeq(text, 3, Len(text)))

\* From<Id> for ByteString (lsat.rs:109-114): the identifier of the macaroon.
IdIntoByteString(id) == HexEncodeBytes(BincodeSerialize(id))

\* TryFrom<&Macaroon> for Id (lsat.rs:116-128) on the identifier of the
\* macaroon: hex::decode, bincode::deserialize, the version check.
IdTryFromIdentifier(identifier) ==
    IF ~HexDecodesBytes(identifier) THEN [ok |-> FALSE]
    ELSE LET bytes == HexDecodeBytes(identifier)
         IN  IF ~BincodeDeserializes(bytes) THEN [ok |-> FALSE]
             ELSE IF BincodeDeserialize(bytes).version # ID_VERSION THEN [ok |-> FALSE]
             ELSE [ok |-> TRUE, id |-> BincodeDeserialize(bytes)]

\* Bytes the arrays are filled with.
ByteSamples == {0, 10, 255}

\* The identities Id::new can make: version ID_VERSION, any payment hash, any
\* token_id.
Identities ==
    [version : {ID_VERSION},
     payment_hash : [1..ArrayLen -> ByteSamples],
     token_id : [1..ArrayLen -> ByteSamples]]

\* The identity codec alone: an identity is made into the identifier of a
\* macaroon, and the identifier is decoded.
InitIdentity ==
    /\ Boot
    /\ \E id \in Identities :
          probe = [op |-> "id", stage |-> "input", id |-> id,
                   identifier |-> << >>, decoded |-> [ok |-> FALSE]]

EncodeId ==
    /\ probe.op = "id" /\ probe.stage = "input"
    /\ probe' = [probe EXCEPT !.stage = "encoded",
                              !.identifier = IdIntoByteString(probe.id)]
    /\ UNCHANGED Others

DecodeId ==
    /\ probe.op = "id" /\ probe.stage = "encoded"
    /\ probe' = [probe EXCEPT !.stage = "decoded",
                              !.decoded = IdTryFromIdentifier(probe.identifier)]
    /\ UNCHANGED Others

NextIdentity ==
    \/ EncodeId
    \/ DecodeId

SpecIdentity == InitIdentity /\ [][NextIdentity]_vars

\* The request binder alone: a body comes as two iterations of the same map
\* (two hosts, or two HashMaps built in different insertion orders) and
\* to_sha256 is applied to each.
InitBinder ==
    /\ Boot
    /\ \E first \in Iterations :
          \E second \in Reorderings(first) :
              probe = [op |-> "body", stage |-> "input", first |-> first,
                       second |-> second, digest1 |-> Sha256(<< >>),
                       digest2 |-> Sha256(<< >>)]

HashFirst ==
    /\ probe.op = "body" /\ probe.stage = "input"
    /\ probe' = [probe EXCEPT !.stage = "first",
                              !.digest1 = EntriesToSha256(probe.first)]
    /\ UNCHANGED Others

HashSecond ==
    /\ probe.op = "body" /\ probe.stage = "first"
    /\ probe' = [probe EXCEPT !.stage = "both",
                              !.digest2 = EntriesToSha256(probe.second)]
    /\ UNCHANGED Others

NextBinder ==
    \/ HashFirst
    \/ HashSecond

SpecBinder == InitBinder /\ [][NextBinder]_vars

\* -------------------------------------------------------------- properties
\* What the properties below read of a challenge c: the identity and the
\* backend it was minted for, the price of a call and the ledger entry.

ChallengeId(c) == IdTryFrom(challenges[c].mac)
ChallengeBackend(c) == BackendFor(challenges[c].path)
ChallengeKey(c) == DbId(ChallengeId(c))
InLedger(c) == ChallengeKey(c) \in DOMAIN db

\* The charge of a mint, written out: price times the budget multiple (1 when
\* absent), modulo 2^32.
ExpectedCharge(backend) ==
    U32WrappingMul(backend.price_msat,
                   IF backend.budget_multiple.some THEN backend.budget_multiple.val
                   ELSE U32(0, 1))

RECURSIVE QuotaAfter(_, _, _)
\* quota - k * price over the naturals: [neg |-> TRUE] when it is negative.
QuotaAfter(quota, price, k) ==
    IF k = 0 THEN [neg |-> FALSE, val |-> quota]
    ELSE IF U32Lt(quota, price) THEN [neg |-> TRUE, val |-> U32Zero]
    ELSE QuotaAfter(U32WrappingSub(quota, price), price, k - 1)

\* No request is between its read of the ledger and the end of its checks.
Quiet == \A t \in Tasks : task[t].pc \in {"idle", "forward"} \cup Terminal

\* The charge of the backend is the product itself, with no overflow.
ChargeFits(backend) ==
    ~U32MulOverflows(backend.price_msat,
                     IF backend.budget_multiple.some THEN backend.budget_multiple.val
                     ELSE U32(0, 1))

\* C1: with requests served one at a time, a credential minted with quota Q
\* (the product of price and budget multiple, within 32 bits) on a backend of
\* price p, all of whose k verifications so far succeeded, has k * p <= Q; its
\* ledger entry holds Q - k * p while k * p < Q and is gone once k >= 1 and
\* k * p = Q.
C1_SequentialQuota ==
    \A c \in 1..Len(challenges) :
        (Quiet /\ ~refused[c] /\ ChargeFits(ChallengeBackend(c))) =>
            LET backend == ChallengeBackend(c)
                left == QuotaAfter(ExpectedCharge(backend), backend.price_msat,
                                   forwarded[c])
            IN  /\ ~left.neg
                /\ left.val # U32Zero =>
                       InLedger(c) /\ db[ChallengeKey(c)].quota = left.val
                /\ (left.val = U32Zero /\ forwarded[c] >= 1) => ~InLedger(c)

\* The verification failures of handle_protected that follow Entry::get.
VerificationFailures ==
    {"LSAT incorrect", "Preimage does not match payment hash",
     "Unable to get invoice state", "Invoice is not settled"}

\* C2: a request with a credential that is rejected for a failed verification
\* (signature or caveats, preimage, invoice lookup, invoice not settled)
\* leaves the ledger as it was when the request arrived.
C2_RejectionKeepsLedger ==
    \A t \in Tasks :
        (/\ task[t].auth.shape = "lsat"
         /\ task[t].pc = "REJECTED"
         /\ task[t].message \in VerificationFailures) => db = task[t].db0

\* C7: the amount of the invoice and the quota of the entry of a mint are the
\* product of the price and the budget multiple, which fits in 32 bits.
C7_ChargeIsProduct ==
    \A t \in Tasks :
        task[t].pc = "mint_respond" =>
            LET backend == BackendFor(task[t].path)
                multiple == IF backend.budget_multiple.some
                            THEN backend.budget_multiple.val ELSE U32(0, 1)
            IN  /\ ~U32MulOverflows(backend.price_msat, multiple)
                /\ db[DbId(task[t].id)].quota = ExpectedCharge(backend)
                /\ \E n \in 1..Len(invoices) :
                       /\ invoices[n].r_hash = task[t].id.payment_hash
                       /\ invoices[n].value_msat = ExpectedCharge(backend)

\* The macaroon carries a signature made with the key derived from the digest
\* of the identity it names, and each of its caveats is the path of the
\* backend or a deadline after the time of verification.
SignedAndSatisfied(rec) ==
    LET mac == rec.auth.mac
    IN  /\ mac.identifier = HexEncode(Serialize(rec.id))
        /\ mac.signature = [root |-> <<"hmac", "macaroons-key-generator",
                                        Sha256(Serialize(rec.id))>>,
                             identifier |-> mac.identifier,
                             caveats |-> mac.caveats]
        /\ \A i \in 1..Len(mac.caveats) :
               \/ mac.caveats[i].key = "path" /\ mac.caveats[i].op = "="
                                              /\ mac.caveats[i].val = rec.path
               \/ mac.caveats[i].key = "time" /\ mac.caveats[i].op = "<"
                                              /\ rec.vtime < mac.caveats[i].val

\* C5: whenever the upstream call of a request is issued, the macaroon of the
\* request verified against the secret derived from its identity for the path
\* of the backend at the time of verification, the digest of the preimage is
\* the payment hash of the identity, and the invoice looked up under that
\* hash is settled.
C5_ForwardOnlyVerified ==
    \A t \in Tasks :
        task[t].pc \in {"forward", "DONE"} =>
            /\ task[t].auth.shape = "lsat"
            /\ task[t].path \in Paths
            /\ SignedAndSatisfied(task[t])
            /\ Sha256(task[t].preimage) = task[t].id.payment_hash
            /\ task[t].inv.r_hash = task[t].id.payment_hash
            /\ task[t].inv.state = "Settled"

\* An upstream call is being issued.
C5_Forwarding == \E t \in Tasks : task[t].pc = "forward" /\ task[t].auth.shape = "lsat"

\* The ledger holds everything it held when the request arrived, unchanged.
KeepsLedger(rec) ==
    \A k \in DOMAIN rec.db0 : k \in DOMAIN db /\ db[k] = rec.db0[k]

\* What a request that ended CHALLENGED has done: one invoice more at the
\* node, one entry more in the ledger, under the digest of the new identity,
\* whose quota and whose invoice's amount are the charge of the backend, and
\* a 402 whose macaroon names that identity.
MintedOnce(rec) ==
    /\ rec.status = 402
    /\ Len(invoices) = rec.invoices0 + 1
    /\ invoices[Len(invoices)].r_hash = rec.id.payment_hash
    /\ invoices[Len(invoices)].value_msat = ExpectedCharge(BackendFor(rec.path))
    /\ DbId(rec.id) \notin DOMAIN rec.db0
    /\ DOMAIN db = DOMAIN rec.db0 \cup {DbId(rec.id)}
    /\ db[DbId(rec.id)].quota = ExpectedCharge(BackendFor(rec.path))
    /\ challenges # << >>
    /\ challenges[Len(challenges)].mac.identifier = IdToIdentifier(rec.id)
    /\ challenges[Len(challenges)].invoice = Len(invoices)

\* C9 as stated: every request without an Authorization header ends
\* CHALLENGED, the node asked for one invoice and one ledger entry created
\* with the charge as quota, no upstream call made and no existing entry
\* touched.
C9_EveryPlainRequestChallenged ==
    \A t \in Tasks :
        (task[t].auth.shape = "none" /\ task[t].pc \in Terminal) =>
            /\ task[t].pc = "CHALLENGED"
            /\ MintedOnce(task[t])
            /\ KeepsLedger(task[t])

\* C9 amended: a request without an Authorization header never calls the
\* upstream, never touches an existing ledger entry and has the node create at
\* most one invoice; it ends CHALLENGED with exactly one invoice and one new
\* entry of quota = charge, or REJECTED with 400 (with no new entry when
\* add_invoice or the store write fails, with the new entry left behind when a
\* later step fails), or in a panic with nothing created when the charge
\* overflows in a debug build.
C9_PlainRequestMints ==
    \A t \in Tasks :
        (task[t].auth.shape = "none" /\ task[t].pc # "idle") =>
            /\ task[t].pc \in {"mint", "mint_insert", "mint_respond",
                               "CHALLENGED", "REJECTED", "PANICKED"}
            /\ KeepsLedger(task[t])
            /\ Len(invoices) \in {task[t].invoices0, task[t].invoices0 + 1}
            /\ task[t].pc = "CHALLENGED" => MintedOnce(task[t])
            /\ task[t].pc = "REJECTED" =>
                   /\ task[t].status = 400
                   /\ task[t].message = "Unable to generate challange"
                   /\ \/ db = task[t].db0
                      \/ /\ Len(invoices) = task[t].invoices0 + 1
                         /\ DbId(task[t].id) \notin DOMAIN task[t].db0
                         /\ DOMAIN db = DOMAIN task[t].db0 \cup {DbId(task[t].id)}
                         /\ db[DbId(task[t].id)].quota =
                                ExpectedCharge(BackendFor(task[t].path))
            /\ task[t].pc = "PANICKED" =>
                   /\ ~ChargeFits(BackendFor(task[t].path))
                   /\ build = "debug"
                   /\ db = task[t].db0
                   /\ Len(invoices) = task[t].invoices0

\* A request without an Authorization header that found an entry in the
\* ledger has been answered 402.
C9_Challenged ==
    \E t \in Tasks :
        /\ task[t].auth.shape = "none"
        /\ task[t].pc = "CHALLENGED"
        /\ DOMAIN task[t].db0 # {}

\* The macaroon of the request has a path caveat naming another path than
\* the one the request is made on.
PathMismatch(rec) ==
    /\ rec.auth.shape = "lsat"
    /\ \E i \in 1..Len(rec.auth.mac.caveats) :
           /\ rec.auth.mac.caveats[i].key = "path"
           /\ rec.auth.mac.caveats[i].val # rec.path

\* C10: a request on backend B whose macaroon is bound by a path caveat to
\* another backend never passes verification: it is answered 400, the ledger
\* is as the request found it and no upstream call is made.
C10_OtherPathRejected ==
    \A t \in Tasks :
        PathMismatch(task[t]) =>
            /\ task[t].pc \in {"db_get", "verify", "REJECTED"}
            /\ task[t].pc = "REJECTED" => task[t].status = 400
            /\ db = task[t].db0

\* A credential correctly signed for another backend, presented within its
\* time window, has been rejected by Lsat::verify.
C10_RejectedOnOtherPath ==
    \E t \in Tasks :
        /\ PathMismatch(task[t])
        /\ task[t].pc = "REJECTED"
        /\ task[t].message = "LSAT incorrect"
        /\ task[t].cred \in 1..Len(challenges)
        /\ task[t].auth.mac = ReboundMac(challenges[task[t].cred])
        /\ DbId(task[t].id) \in DOMAIN db
        /\ task[t].vtime < challenges[task[t].cred].minted_at + 120

\* C8: a credential minted at t0 carries the caveat time < t0 + 120; presented
\* as minted on the backend it was minted for, with its ledger entry in place,
\* it passes verification while the clock is below t0 + 120 and is rejected
\* with 400 from t0 + 120 on.
C8_RedeemableWithinWindow ==
    /\ \A c \in 1..Len(challenges) :
           /\ challenges[c].mac.caveats # << >>
           /\ challenges[c].mac.caveats[1] =
                  [key |-> "time", op |-> "<", val |-> challenges[c].minted_at + 120]
    /\ \A t \in Tasks :
           (/\ task[t].auth.shape = "lsat"
            /\ task[t].cred \in 1..Len(challenges)
            /\ task[t].auth.mac = challenges[task[t].cred].mac
            /\ task[t].path = challenges[task[t].cred].path) =>
               LET deadline == challenges[task[t].cred].minted_at + 120
               IN  /\ task[t].pc \in {"charge", "cache_get", "node_lookup",
                                      "cache_insert", "forward", "DONE"} =>
                          task[t].vtime < deadline
                   /\ (task[t].pc = "REJECTED" /\ task[t].message = "LSAT incorrect") =>
                          task[t].vtime >= deadline
                   /\ task[t].pc # "PANICKED"

\* C3: with requests served concurrently and no arithmetic overflow, the
\* ledger entry of a credential all of whose k verifications succeeded, with
\* k * p <= Q, is what k verifications one after the other leave: Q - k * p,
\* or no entry when that is zero and k >= 1.
C3_ConcurrentAsSequential ==
    \A c \in 1..Len(challenges) :
        (Quiet /\ ~refused[c] /\ build = "any") =>
            LET backend == ChallengeBackend(c)
                left == QuotaAfter(ExpectedCharge(backend), backend.price_msat,
                                   forwarded[c])
            IN  ~left.neg =>
                    IF left.val = U32Zero /\ forwarded[c] >= 1
                    THEN ~InLedger(c)
                    ELSE InLedger(c) /\ db[ChallengeKey(c)].quota = left.val

\* C4: with no arithmetic overflow, the requests of one credential that are
\* forwarded never number more than floor(Q / p).
C4_ForwardedWithinQuota ==
    \A c \in 1..Len(challenges) :
        build = "any" =>
            LET backend == ChallengeBackend(c)
            IN  ~QuotaAfter(ExpectedCharge(backend), backend.price_msat,
                            forwarded[c]).neg

\* C6: no step raises the quota of a ledger entry, and the entry of an issued
\* credential, once gone from the ledger, does not come back.
C6_QuotaNeverGrows ==
    [][/\ \A k \in DOMAIN db \cap DOMAIN db' : ~U32Lt(db[k].quota, db'[k].quota)
       /\ \A c \in 1..Len(challenges) : ~InLedger(c) => ChallengeKey(c) \notin DOMAIN db'
      ]_vars

\* The node holds the invoice of payment hash ph as settled.
SettledAtNode(ph) ==
    \E n \in 1..Len(invoices) :
        invoices[n].r_hash = ph /\ invoices[n].state = "Settled"

\* C11: with no arithmetic overflow, no request is rejected as unsettled from
\* the cache while the node holds its invoice as settled: a cached entry that
\* is not Settled sends lookup_invoice on to the node.
C11_StaleCacheFallsBack ==
    [][\A t \in Tasks :
          (/\ build' = "any"
           /\ task[t].pc = "cache_get"
           /\ task'[t].pc = "REJECTED"
           /\ task'[t].message = "Invoice is not settled")
              => ~SettledAtNode(Sha256(task[t].preimage))
      ]_vars

\* C12: with no arithmetic overflow, a cache entry the stream has brought to Settled (the last state of an
\* invoice) is not put back to an older state by the insert that ends a
\* read-through lookup.
C12_StreamSupersedes ==
    [][\A t \in Tasks :
          (/\ build' = "any"
           /\ task[t].pc = "cache_insert"
           /\ task'[t].pc # "cache_insert") =>
              \A h \in DOMAIN cache :
                  cache[h].state = "Settled" => cache'[h].state = "Settled"
      ]_vars

\* C13: whenever the subscription task sleeps after a stream has ended, it
\* goes on to call subscribe_invoices again.
C13_Reconnects == (sub.pc = "inner_sleep") ~> (sub.pc = "subscribe")


\* C14: a request that fails after its charge was written to the store (the
\* upstream request cannot be built, sent or its answer parsed) ends REJECTED
\* and leaves the ledger as the charge left it.
C14_FailureAfterCommit ==
    [][\A t \in Tasks :
          (task[t].pc = "forward" /\ task'[t].pc \notin {"forward", "DONE"}) =>
              (task'[t].pc = "REJECTED" /\ db' = db)
      ]_vars

\* C15: a request whose mint failed, at whatever step, has left no entry in
\* the ledger: the store holds the keys it held when the request arrived.
C15_FailedMintLeavesNothing ==
    \A t \in Tasks :
        (/\ task[t].auth.shape = "none"
         /\ task[t].pc = "REJECTED"
         /\ task[t].message = "Unable to generate challange")
            => DOMAIN db = DOMAIN task[t].db0

\* C16: a mint that failed at the node or at the store is answered 500.
C16_MintFailureIs500 ==
    \A t \in Tasks :
        (/\ task[t].auth.shape = "none"
         /\ task[t].pc = "REJECTED"
         /\ DOMAIN db = DOMAIN task[t].db0)
            => task[t].status = 500

\* C17: a credential presented as minted, before its deadline and on the path
\* it was minted for, with a body other than the one its payload caveat was
\* computed from, is not refused by Lsat::verify.
C17_ReusableAcrossBodies ==
    \A t \in Tasks :
        (/\ task[t].auth.shape = "lsat"
         /\ task[t].cred \in 1..Len(challenges)
         /\ task[t].auth.mac = MintedMac(challenges[task[t].cred])
         /\ task[t].path = challenges[task[t].cred].path
         /\ task[t].vtime < challenges[task[t].cred].minted_at + PaymentWindow
         /\ task[t].auth.mac.caveats[3] #
                Caveat("payload", "=", HexEncode(BodyToSha256(task[t].indata))))
            => ~(task[t].pc = "REJECTED" /\ task[t].message = "LSAT incorrect")

\* C18: a request whose credential is in a Grpc-Metadata-Macaroon or Macaroon
\* header only, its macaroon holding a preimage= caveat, is parsed and goes on
\* to the ledger lookup and the verification: it is not treated as a request
\* without credential.
C18_MacaroonHeadersParsed ==
    \A t \in Tasks :
        (/\ task[t].pc # "idle"
         /\ task[t].auth.other \in {"Grpc-Metadata-Macaroon", "Macaroon"}
         /\ \E i \in 1..Len(task[t].auth.mac.caveats) :
                task[t].auth.mac.caveats[i].key = "preimage")
            => task[t].pc \notin {"mint", "mint_insert", "mint_respond", "CHALLENGED"}

\* C19: with requests served one at a time, a 200 response carries in
\* x-msats-quota the quota the ledger holds for the credential after the
\* charge of the request, 0 when the entry was removed; a credential of price
\* 1000 and budget multiple 3 whose requests were all forwarded is answered
\* 2000, 1000 and 0, at most three times; and a request whose credential has
\* no entry in the ledger is answered 400.
C19_QuotaHeaderIsRemaining ==
    \A t \in Tasks :
        /\ task[t].pc = "DONE" =>
               LET key == DbId(task[t].id)
                   backend == BackendFor(task[t].path)
                   k == forwarded[task[t].cred]
               IN  /\ task[t].status = 200
                   /\ task[t].quota_header =
                          IF key \in DOMAIN db THEN db[key].quota ELSE U32Zero
                   /\ (/\ backend.price_msat = U32(0, 1000)
                       /\ backend.budget_multiple = Some(U32(0, 3))
                       /\ ~refused[task[t].cred])
                          => /\ k \in 1..3
                             /\ task[t].quota_header = U32(0, 3000 - 1000 * k)
        /\ (/\ task[t].auth.shape = "lsat"
            /\ task[t].pc \notin {"idle", "db_get"}
            /\ DbId(task[t].id) \notin DOMAIN task[t].db0)
               => (task[t].pc = "REJECTED" /\ task[t].status = 400)

\* The third request of a credential of price 1000 and budget multiple 3 has
\* been answered 200 with x-msats-quota 0 and its entry is gone.
C19_LastQuotaSpent ==
    \E t \in Tasks :
        /\ task[t].pc = "DONE"
        /\ task[t].path = "/echo"
        /\ task[t].quota_header = U32Zero
        /\ forwarded[task[t].cred] = 3
        /\ ~refused[task[t].cred]
        /\ DbId(task[t].id) \notin DOMAIN db

\* C20: with no arithmetic overflow, no request ends with the handler
\* aborting: a request that has ended is CHALLENGED, REJECTED or DONE and has
\* been answered.
C20_NoAbort ==
    \A t \in Tasks :
        build = "any" =>
            /\ task[t].pc # "PANICKED"
            /\ task[t].pc \in {"CHALLENGED", "REJECTED", "DONE"} =>
                   task[t].status \in {200, 400, 402, 500}

\* C21: a request whose body lacks a key of the backend's pass_fields, and
\* which is rejected for it when the upstream request is built, is answered
\* with a status of the 400 class.
C21_MissingFieldIsClientError ==
    [][\A t \in Tasks :
          (/\ task[t].pc = "forward"
           /\ \E k \in DOMAIN BackendFor(task[t].path).pass_fields :
                  k \notin DOMAIN task[t].indata
           /\ task'[t].pc = "REJECTED")
              => task'[t].status \in 400..499
      ]_vars

\* C22: a mint on a backend whose budget multiple is absent or 0 asks the node
\* for an invoice of price_msat and stores price_msat as the quota of the new
\* entry, never 0.
C22_ChargeAtLeastPrice ==
    \A t \in Tasks :
        LET backend == BackendFor(task[t].path)
        IN  (/\ task[t].pc = "CHALLENGED"
             /\ backend.budget_multiple \in {None, Some(U32Zero)})
                => /\ invoices[Len(invoices)].value_msat = backend.price_msat
                   /\ db[DbId(task[t].id)].quota = backend.price_msat

\* C23: a request that has passed the identity decoding, the ledger lookup and
\* the verification of the macaroon goes on to the lookup of the invoice if
\* and only if the digest of the presented preimage is the payment hash of
\* its identity.
C23_LookupIffPreimage ==
    [][\A t \in Tasks :
          (task[t].pc = "charge" /\ task'[t].pc # "charge") =>
              (task'[t].pc = "cache_get"
                   <=> PreimageMatches(task[t].id, task[t].preimage))
      ]_vars

\* The identities the mint has created: one per invoice and token drawn.
MintedIds ==
    {IdNew(invoices[n].r_hash, token) : n \in 1..Len(invoices), token \in TokenIds}

\* The credential of challenge c has not been presented beyond the
\* verification of its macaroon.
Unspent(c) ==
    /\ forwarded[c] = 0
    /\ ~refused[c]
    /\ \A t \in Tasks :
           task[t].cred = c => task[t].pc \in {"idle", "db_get", "verify"}

C25_DigestIgnoresOrder ==
    (probe.op = "body" /\ probe.stage = "both") =>
        /\ probe.digest1 = probe.digest2
        /\ probe.digest1 = BodyToSha256(MapOf(probe.first))

\* The digests of {"a":"1","b":"2"} and of {"b":"2","a":"1"} have been computed.
C25_BothOrdersHashed ==
    /\ probe.op = "body" /\ probe.stage = "both"
    /\ probe.first = << [k |-> <<97>>, v |-> <<49>>], [k |-> <<98>>, v |-> <<50>>] >>
    /\ probe.second = << [k |-> <<98>>, v |-> <<50>>], [k |-> <<97>>, v |-> <<49>>] >>

\* C26: the identifier made from an identity of version 0 decodes, and to an
\* identity of the same version, payment hash and token_id.
C26_IdRoundTrip ==
    (probe.op = "id" /\ probe.stage = "decoded") =>
        /\ probe.decoded.ok
        /\ probe.decoded.id.version = probe.id.version
        /\ probe.decoded.id.payment_hash = probe.id.payment_hash
        /\ probe.decoded.id.token_id = probe.id.token_id
        /\ Len(probe.identifier) = 2 * (UsizeBytes + 2 * ArrayLen)

\* An identity whose payment hash and token_id differ, with bytes that take
\* letters and a leading zero in hex, has been encoded and decoded.
C26_Decoded ==
    /\ probe.op = "id" /\ probe.stage = "decoded"
    /\ probe.id.payment_hash # probe.id.token_id
    /\ probe.id.payment_hash[1] = 10
    /\ probe.id.token_id[1] = 255

C28_MutexDiscipline ==
    /\ [](Cardinality(lnd.holders) <= 1)
    /\ [](sub.pc \in {"subscribe", "message", "inner_sleep", "outer_sleep"} =>
             /\ Subscriber \notin lnd.holders
             /\ \A i \in 1..Len(lnd.waiters) : lnd.waiters[i] # Subscriber)
    /\ \A t \in Tasks :
          (task[t].pc \in {"add_invoice_lock", "lookup_invoice_lock"})
              ~> (Requester(t) \in lnd.holders)

\* A request holds the mutex and another waits for it while the subscription
\* task awaits a message of its stream.
C28_RequestsQueueBesideStream ==
    /\ sub.pc = "message"
    /\ \E t \in Tasks : Requester(t) \in lnd.holders
    /\ \E t \in Tasks : lnd.waiters = <<Requester(t)>>

====
